---- MODULE Spec2Model ----
(***************************************************************************)
(* Model of src/src/books_scraper.py: the pagination walk of scrape_books, *)
(* its field parsers, the relative-URL resolution it relies on and the     *)
(* try/except wrapper of main.                                             *)
(*                                                                         *)
(* Spec is one call of scrape_books on a site read page by page, under     *)
(* main when the start URL is BASE; SpecTwice lets a caller other than     *)
(* main call scrape_books a second time on the same site; SpecCrumbs,      *)
(* SpecChain and SpecParsers run the same actions on given sites: detail   *)
(* pages with breadcrumb trails of every length, list pages linked in      *)
(* every way, and a card with a given price text after a direct call of a  *)
(* parser.                                                                 *)
(*                                                                         *)
(* Text is a sequence of one-character strings.  An optional value (a      *)
(* missing node, a missing attribute, pd.NA) is a sequence of length 0 or  *)
(* 1: <<>> is "absent", <<v>> is "present with value v".                   *)
(***************************************************************************)
EXTENDS Integers, Sequences, FiniteSets, TLC

\* ------------------------------------------------------------------ bounds

\* Cap on the number of get_soup calls of one walk (list and detail fetches).
MaxFetches == 4
\* Largest number of article.product_pod cards on one list page.
MaxCards == 2
\* Largest number of places in which the cards and detail pages of the site
\* differ from the normal card and the normal detail page.
MaxOdd == 2
\* Longest text given to parse_price and parse_availability in the direct
\* calls, apart from the longer example texts.
MaxText == 4
\* Longest class list given to parse_rating in the direct calls.
MaxLabels == 3
\* Cap on the number of get_soup calls of a walk on the chain fixture.
MaxChainFetches == 6

\* ------------------------------------------------------------------ options

None == <<>>
Some(v) == <<v>>
IsSome(o) == Len(o) = 1
Val(o) == o[1]

\* ------------------------------------------------------------------ text

Digits == {"0", "1", "2", "3", "4", "5", "6", "7", "8", "9"}

DigitVal(c) ==
  CASE c = "0" -> 0 [] c = "1" -> 1 [] c = "2" -> 2 [] c = "3" -> 3
    [] c = "4" -> 4 [] c = "5" -> 5 [] c = "6" -> 6 [] c = "7" -> 7
    [] c = "8" -> 8 [] c = "9" -> 9

\* Characters str.strip() removes (the model's texts use the blank only).
Whitespace == {" "}

RECURSIVE lstrip(_)
lstrip(s) ==
  IF s /= <<>> /\ Head(s) \in Whitespace THEN lstrip(Tail(s)) ELSE s

RECURSIVE rstrip(_)
rstrip(s) ==
  IF s /= <<>> /\ s[Len(s)] \in Whitespace
  THEN rstrip(SubSeq(s, 1, Len(s) - 1))
  ELSE s

\* str.strip()
strip(s) == rstrip(lstrip(s))

\* int() of a non-empty run of decimal digits
RECURSIVE DigitsToInt(_)
DigitsToInt(s) ==
  IF s = <<>> THEN 0
  ELSE 10 * DigitsToInt(SubSeq(s, 1, Len(s) - 1)) + DigitVal(s[Len(s)])

\* ------------------------------------------------------------------ parsers

\* A substitution that removes the decimal point with the other characters.
StripNonPrice_nodot(text) == SelectSeq(text, LAMBDA c : c \in Digits)

\* re.sub(r"[^\d.]", "", text)
StripNonPrice(text) == SelectSeq(text, LAMBDA c : c \in Digits \cup {"."})

CountDots(s) == Len(SelectSeq(s, LAMBDA c : c = "."))
CountDigits(s) == Len(SelectSeq(s, LAMBDA c : c \in Digits))

\* float(s) accepts a string of digits and dots iff it has at most one dot
\* and at least one digit; anything else raises ValueError.
FloatAccepts(s) == CountDots(s) <= 1 /\ CountDigits(s) >= 1

\* A decimal value mant / 10^exp, normalised so that equal numbers are
\* equal records (5.50 and 5.5 are the same float).
RECURSIVE NormDec(_, _)
NormDec(mant, exp) ==
  IF exp > 0 /\ mant % 10 = 0 THEN NormDec(mant \div 10, exp - 1)
  ELSE [mant |-> mant, exp |-> exp]

\* Position of the first dot of s, or Len(s) + 1 when s has none.
RECURSIVE DotPos(_)
DotPos(s) ==
  IF s = <<>> \/ Head(s) = "." THEN 1 ELSE 1 + DotPos(Tail(s))

\* float(s) for an accepted s.
FloatValue(s) ==
  LET digits == SelectSeq(s, LAMBDA c : c \in Digits)
      frac == IF CountDots(s) = 0 THEN 0 ELSE Len(s) - DotPos(s)
  IN NormDec(DigitsToInt(digits), frac)

\* parse_price(text): [ok |-> TRUE, value |-> number], or ok = FALSE when
\* float() raises ValueError.
parse_price(text) ==
  LET s == StripNonPrice(text)
  IN IF FloatAccepts(s)
     THEN [ok |-> TRUE, value |-> FloatValue(s)]
     ELSE [ok |-> FALSE, value |-> [mant |-> 0, exp |-> 0]]

mapping == [c \in {"One", "Two", "Three", "Four", "Five"} |->
  CASE c = "One" -> 1 [] c = "Two" -> 2 [] c = "Three" -> 3
    [] c = "Four" -> 4 [] c = "Five" -> 5]

\* A lookup that lets a later class override an earlier one.
RECURSIVE parse_rating_last(_)
parse_rating_last(classes) ==
  IF classes = <<>> THEN None
  ELSE IF classes[Len(classes)] \in DOMAIN mapping
    THEN Some(mapping[classes[Len(classes)]])
  ELSE parse_rating_last(SubSeq(classes, 1, Len(classes) - 1))

\* parse_rating(classes): the mapped value of the first class that is a key
\* of mapping, pd.NA (None) when there is none.
RECURSIVE parse_rating(_)
parse_rating(classes) ==
  IF classes = <<>> THEN None
  ELSE IF Head(classes) \in DOMAIN mapping THEN Some(mapping[Head(classes)])
  ELSE parse_rating(Tail(classes))

\* A match of one digit only (\d in place of \d+).
DigitPrefix_single(s) == <<Head(s)>>

\* The longest prefix of s made of digits (the greedy \d+ at one position).
RECURSIVE DigitPrefix(_)
DigitPrefix(s) ==
  IF s /= <<>> /\ Head(s) \in Digits
  THEN <<Head(s)>> \o DigitPrefix(Tail(s))
  ELSE <<>>

\* re.search(r"(\d+)", text): the leftmost match, None when there is none.
RECURSIVE SearchDigits(_)
SearchDigits(text) ==
  IF text = <<>> THEN None
  ELSE IF Head(text) \in Digits THEN Some(DigitPrefix(text))
  ELSE SearchDigits(Tail(text))

\* parse_availability(text)
parse_availability(text) ==
  LET m == SearchDigits(text)
  IN IF IsSome(m) THEN Some(DigitsToInt(Val(m))) ELSE None

\* ------------------------------------------------------------------ URLs

\* A URL or URL reference, as urlparse splits it: scheme, netloc and the
\* path as path.split('/') ("/a/b" is <<"", "a", "b">>, "" is <<"">>,
\* "/" is <<"", "">>, "../x" is <<"..", "x">>).
Url(scheme, netloc, path) == [scheme |-> scheme, netloc |-> netloc, path |-> path]

\* The empty string, which art.h3.a.get("href", "") gives for a missing href.
EmptyUrl == Url("", "", <<"">>)

\* A relative reference with the given path segments.
Rel(path) == Url("", "", path)

IsAbsolute(u) == u.scheme /= "" /\ u.netloc /= ""

\* Schemes of urllib.parse.uses_relative that the model's URLs use.
uses_relative == {"", "http", "https"}

\* base_parts: bpath.split('/') without its last item unless that is ''.
BaseParts(bpath) ==
  IF bpath[Len(bpath)] /= "" THEN SubSeq(bpath, 1, Len(bpath) - 1) ELSE bpath

\* segments[1:-1] = filter(None, segments[1:-1])
FilterInner(segments) ==
  IF Len(segments) < 3 THEN segments
  ELSE <<segments[1]>>
       \o SelectSeq(SubSeq(segments, 2, Len(segments) - 1), LAMBDA x : x /= "")
       \o <<segments[Len(segments)]>>

\* The loop over segments: '..' pops (ignored on an empty list), '.' is
\* skipped, anything else is appended.
RECURSIVE RemoveDots(_, _)
RemoveDots(segments, resolved) ==
  IF segments = <<>> THEN resolved
  ELSE LET seg == Head(segments)
       IN IF seg = ".."
          THEN RemoveDots(Tail(segments),
                          IF resolved = <<>> THEN resolved
                          ELSE SubSeq(resolved, 1, Len(resolved) - 1))
          ELSE IF seg = "." THEN RemoveDots(Tail(segments), resolved)
          ELSE RemoveDots(Tail(segments), Append(resolved, seg))

\* The path of urljoin's result for a reference without scheme and netloc.
ResolvedPath(netloc, bpath, path) ==
  LET segments == IF Len(path) >= 2 /\ path[1] = ""
                  THEN path
                  ELSE FilterInner(BaseParts(bpath) \o path)
      popped == RemoveDots(segments, <<>>)
      resolved == IF segments[Len(segments)] \in {".", ".."}
                  THEN Append(popped, "") ELSE popped
  IN IF resolved = <<>> \/ resolved = <<"">> THEN <<"", "">>
     ELSE IF netloc /= "" /\ resolved[1] /= "" THEN <<"">> \o resolved
     ELSE resolved

\* urllib.parse.urljoin(base, url)
urljoin(base, url) ==
  IF base = EmptyUrl THEN url
  ELSE IF url = EmptyUrl THEN base
  ELSE LET scheme == IF url.scheme = "" THEN base.scheme ELSE url.scheme
       IN IF scheme /= base.scheme \/ scheme \notin uses_relative THEN url
          ELSE IF url.netloc /= "" THEN Url(scheme, url.netloc, url.path)
          ELSE Url(scheme, base.netloc,
                   ResolvedPath(base.netloc, base.path, url.path))

\* ------------------------------------------------------------------ fixtures

\* BASE, the start URL main passes: "http://books.toscrape.com/".
BASE == Url("http", "books.toscrape.com", <<"", "">>)

\* A start URL for a direct call of scrape_books: "http://example.com/index.html".
ExampleStart == Url("http", "example.com", <<"", "index.html">>)

StartURLs == {BASE, ExampleStart}

\* An article.product_pod card: whether art.h3.a exists, the anchor's title
\* and href attributes, and the text of the p.price_color node, the class
\* list of the p.star-rating node and the text of the p.instock.availability
\* node (each None when the attribute or node is missing).
NormalCard ==
  [anchor |-> TRUE,
   title |-> Some(<<"a">>),
   href |-> Some(Rel(<<"a-light-in-the-attic_1000", "index.html">>)),
   price |-> Some(<<"P", "5", ".", "1">>),
   rating |-> Some(<<"star-rating", "Three">>),
   avail |-> Some(<<"(", "2", "2", " ", "a", ")">>)]

\* The values the parts of a card take in the fixture pages; the first of
\* each is the normal card's.
Anchors == {TRUE, FALSE}
TitleAttrs == {NormalCard.title, None, Some(<<" ">>), Some(<<" ", "a", " ">>)}
HrefAttrs ==
  {NormalCard.href, None,
   Some(Rel(<<"..", "a-light-in-the-attic_1000", "index.html">>)),
   Some(Url("https", "cdn.example.org", <<"", "b", "index.html">>))}
PriceNodes == {NormalCard.price, None, Some(<<"P", "-", "-">>)}
RatingNodes == {NormalCard.rating, None, Some(<<"star-rating">>)}
AvailNodes == {NormalCard.avail, None, Some(<<"I", "n">>)}

Cards ==
  [anchor : Anchors, title : TitleAttrs, href : HrefAttrs, price : PriceNodes,
   rating : RatingNodes, avail : AvailNodes]

Differs(x, y) == IF x = y THEN 0 ELSE 1

\* In how many parts a card differs from the normal card.
OddCard(art) ==
  Differs(art.anchor, NormalCard.anchor) + Differs(art.title, NormalCard.title)
  + Differs(art.href, NormalCard.href) + Differs(art.price, NormalCard.price)
  + Differs(art.rating, NormalCard.rating) + Differs(art.avail, NormalCard.avail)

\* The "li.next a" element of a list page: None when the page has none,
\* else Some(href) with href the element's href attribute (None when the
\* attribute is missing).
NextLinks ==
  {None, Some(None),
   Some(Some(Rel(<<"catalogue", "page-2.html">>)))}

\* What a document shows to the detail-page selectors: the first td of the
\* first row of the product table (None when absent) and the breadcrumb
\* labels.
NormalDetail ==
  [upc |-> Some(<<"u", "1">>), crumbs |-> <<"Home", "Books", "Poetry", "A">>]

DetailFacets ==
  [upc : {NormalDetail.upc, None},
   crumbs : {NormalDetail.crumbs, <<"Home", "Books">>}]

\* In how many parts a detail facet differs from the normal one.
OddDetail(d) ==
  Differs(d.upc, NormalDetail.upc) + Differs(d.crumbs, NormalDetail.crumbs)

\* Outcome of requests.get + raise_for_status for a URL.
Statuses == {"ok", "http_error", "network_error"}

\* ------------------------------------------------------------------ state

VARIABLES
  pc,         \* where the program is: FetchingList, ExtractingItems,
              \* FetchingDetail, Enriching, Done, Raised, Saved, Exited; or
              \* Calling, Called for a direct call of a parser
  start_url,  \* scrape_books' parameter
  url,        \* scrape_books' local url: the current list page
  rows,       \* scrape_books' local rows
  i,          \* 1-based position of the for loop in soup.select(...)
  partial,    \* title, detail_url, price, rating, availability of lines 88-95
  df,         \* the value scrape_books returned: None until it returns
  err,        \* the exception in flight: None, or Some([kind, url])
  exitErr,    \* the exception main re-raised
  printed,    \* the messages main printed
  saved,      \* the frame save_outputs wrote: None until it is called
  site,       \* the pages of the site as fetched so far: URL -> page
  fetchLog,   \* the get_soup calls made, in order
  first,      \* what an earlier call of scrape_books ended with: None, or
              \* Some of its rows, df, err, fetchLog, pc and site
  probe,      \* a direct call of a parser: the function, its argument and
              \* what it returned (None until it has)
  cap         \* the number of get_soup calls a walk is followed for

vars == <<pc, start_url, url, rows, i, partial, df, err, exitErr, printed,
          saved, site, fetchLog, first, probe, cap>>

NoPartial ==
  [Title |-> <<>>, DetailURL |-> EmptyUrl, Price |-> [mant |-> 0, exp |-> 0],
   Rating |-> None, Availability |-> None]

\* No parser is called directly.
NoProbe == [fn |-> "none", arg |-> <<>>, out |-> None]

\* ------------------------------------------------------------------ the site

\* The site is fixed but read piecewise: a page's status is drawn at its
\* first fetch, each card when the loop first reaches it, the end of the
\* cards (closed) when the loop first runs out of them, the next element
\* when line 119 first looks for it, the detail facet when the detail
\* selectors first run on the page.  Whatever was read once is read again
\* the same.
Known(u) == u \in DOMAIN site

UnreadPage(status) ==
  [status |-> status, cards |-> <<>>, closed |-> FALSE, next |-> None,
   detail |-> None]

\* The pages requests.get(u) may deliver.
Responses(u) ==
  IF Known(u) THEN {site[u]} ELSE {UnreadPage(st) : st \in Statuses}

\* The next elements page p may show.
NextLinksOf(p) == IF IsSome(p.next) THEN {Val(p.next)} ELSE NextLinks

\* Page p has a card at position k: one read before, or a new one.
HasCardAt(p, k) == k <= Len(p.cards) \/ (~p.closed /\ k <= MaxCards)

\* Page p has no card at position k: the cards read before end there, or
\* they are all of them.
EndsAt(p, k) == k > Len(p.cards)

\* The odd places read so far.
RECURSIVE OddCards(_)
OddCards(cs) == IF cs = <<>> THEN 0 ELSE OddCard(Head(cs)) + OddCards(Tail(cs))

OddPage(p) ==
  OddCards(p.cards) + (IF IsSome(p.detail) THEN OddDetail(Val(p.detail)) ELSE 0)

RECURSIVE OddPages(_)
OddPages(us) ==
  IF us = {} THEN 0
  ELSE LET u == CHOOSE x \in us : TRUE
       IN OddPage(site[u]) + OddPages(us \ {u})

OddLeft == MaxOdd - OddPages(DOMAIN site)

\* The cards and the detail facets with at most k odd places.
CardsWithin == [k \in 0..MaxOdd |-> {c \in Cards : OddCard(c) <= k}]
DetailFacetsWithin ==
  [k \in 0..MaxOdd |-> {d \in DetailFacets : OddDetail(d) <= k}]

\* The cards page p may show at position k.
CardsAt(p, k) ==
  IF k <= Len(p.cards) THEN {p.cards[k]}
  ELSE CardsWithin[OddLeft]

\* The detail facets page p may show.
DetailFacetsOf(p) ==
  IF IsSome(p.detail) THEN {Val(p.detail)}
  ELSE DetailFacetsWithin[OddLeft]

Put(u, p) == (u :> p) @@ site

\* ------------------------------------------------------------------ helpers

\* A get_soup whose exception does not say which URL failed.
FetchError_nourl(p, u) ==
  [kind |-> IF p.status = "http_error" THEN "HTTPError" ELSE "ConnectionError",
   url |-> None]

\* The exception get_soup(u) raises for a failed response: raise_for_status
\* raises HTTPError, requests.get another RequestException; both carry the
\* request and so its URL.
FetchError(p, u) ==
  [kind |-> IF p.status = "http_error" THEN "HTTPError" ELSE "ConnectionError",
   url |-> Some(u)]

\* get_soup(u): the outcomes of one call, [page, raised].
get_soup(u) ==
  {[page |-> p,
    raised |-> IF p.status = "ok" THEN None ELSE Some(FetchError(p, u))] :
     p \in Responses(u)}

\* The exception lines 88-95 raise on card art, None when they raise none:
\* the first of art.h3.a being None (AttributeError), select_one returning
\* None for the price node (AttributeError), float() rejecting the price
\* text (ValueError), select_one returning None for the rating node
\* (TypeError, None["class"]) or for the availability node (AttributeError).
\* None of them carries a URL.
CardError(art) ==
  IF ~art.anchor THEN Some([kind |-> "AttributeError", url |-> None])
  ELSE IF ~IsSome(art.price) THEN Some([kind |-> "AttributeError", url |-> None])
  ELSE IF ~parse_price(strip(Val(art.price))).ok
    THEN Some([kind |-> "ValueError", url |-> None])
  ELSE IF ~IsSome(art.rating) THEN Some([kind |-> "TypeError", url |-> None])
  ELSE IF ~IsSome(art.avail) THEN Some([kind |-> "AttributeError", url |-> None])
  ELSE None

\* A title taken as the attribute gives it, not stripped.
CardTitle_raw(art) == IF IsSome(art.title) THEN Val(art.title) ELSE <<>>

\* art.h3.a.get("title", "").strip()
CardTitle(art) == strip(IF IsSome(art.title) THEN Val(art.title) ELSE <<>>)

\* A detail URL resolved against the start URL, whatever page the card is on.
CardDetailUrl_root(u, art) ==
  urljoin(start_url, IF IsSome(art.href) THEN Val(art.href) ELSE EmptyUrl)

\* A detail URL taken as the card gives it, not resolved.
CardDetailUrl_raw(u, art) == IF IsSome(art.href) THEN Val(art.href) ELSE EmptyUrl

\* urljoin(url, art.h3.a.get("href", "")) with url the current list page
CardDetailUrl(u, art) ==
  urljoin(u, IF IsSome(art.href) THEN Val(art.href) ELSE EmptyUrl)

\* The locals lines 88-95 set for a card that raises nothing.
ExtractCard(u, art) ==
  [Title |-> CardTitle(art),
   DetailURL |-> CardDetailUrl(u, art),
   Price |-> parse_price(strip(Val(art.price))).value,
   Rating |-> parse_rating(Val(art.rating)),
   Availability |-> parse_availability(strip(Val(art.avail)))]

\* upc of lines 101-102
DetailUpc(d) == IF IsSome(d.upc) THEN strip(Val(d.upc)) ELSE <<>>

\* A category that falls back to "Books" for a trail of three labels too.
DetailCategory_gt3(d) == IF Len(d.crumbs) > 3 THEN d.crumbs[3] ELSE "Books"

\* category of lines 105-106
DetailCategory(d) == IF Len(d.crumbs) >= 3 THEN d.crumbs[3] ELSE "Books"

\* The dict of lines 108-116.
MakeRow(part, d) ==
  [Title |-> part.Title, Price |-> part.Price, Rating |-> part.Rating,
   Availability |-> part.Availability, DetailURL |-> part.DetailURL,
   UPC |-> DetailUpc(d), Category |-> DetailCategory(d)]

\* A walker that drops the rows of the same detail page before it appends.
AppendRow_dedup(rs, row) ==
  Append(SelectSeq(rs, LAMBDA r : r.DetailURL /= row.DetailURL), row)

\* A walker that puts each new row in front of the others.
AppendRow_prepend(rs, row) == <<row>> \o rs

\* rows.append(row)
AppendRow(rs, row) == Append(rs, row)

\* url of line 122
NextUrl(u, next_a) ==
  urljoin(u, IF IsSome(Val(next_a)) THEN Val(Val(next_a)) ELSE EmptyUrl)

\* ------------------------------------------------------------------ actions

Init ==
  /\ start_url \in StartURLs
  /\ url = start_url
  /\ pc = "FetchingList"
  /\ rows = <<>>
  /\ i = 1
  /\ partial = NoPartial
  /\ df = None
  /\ err = None
  /\ exitErr = None
  /\ printed = <<>>
  /\ saved = None
  /\ site = [u \in {} |-> UnreadPage("ok")]
  /\ fetchLog = <<>>
  /\ first = None
  /\ probe = NoProbe
  /\ cap = MaxFetches

\* Line 83: soup = get_soup(url).
FetchList ==
  /\ pc = "FetchingList"
  /\ Len(fetchLog) < cap
  /\ fetchLog' = Append(fetchLog, [kind |-> "list", url |-> url])
  /\ \E r \in get_soup(url) :
       IF IsSome(r.raised)
       THEN /\ site' = Put(url, r.page)
            /\ err' = r.raised
            /\ pc' = "Raised"
            /\ i' = i
       ELSE /\ site' = Put(url, r.page)
            /\ err' = err
            /\ pc' = "ExtractingItems"
            /\ i' = 1
  /\ UNCHANGED <<first, probe, cap, start_url, url, rows, partial, df, exitErr, printed, saved>>

\* A walker that skips a card it cannot read and goes on with the next one.
ExtractItem_skip ==
  /\ pc = "ExtractingItems"
  /\ HasCardAt(site[url], i)
  /\ \E art \in CardsAt(site[url], i) :
       /\ site' = [site EXCEPT ![url].cards =
                     IF i <= Len(@) THEN @ ELSE Append(@, art)]
       /\ IF IsSome(CardError(art))
          THEN /\ i' = i + 1
               /\ pc' = pc
               /\ partial' = partial
          ELSE /\ partial' = ExtractCard(url, art)
               /\ pc' = "FetchingDetail"
               /\ i' = i
  /\ UNCHANGED <<first, probe, cap, start_url, url, rows, df, err, exitErr, printed, saved, fetchLog>>

\* A walker that reads the list-page fields of the card after this one too
\* before it fetches this one's detail page.
ExtractItem_ahead ==
  /\ pc = "ExtractingItems"
  /\ HasCardAt(site[url], i)
  /\ \E art \in CardsAt(site[url], i) :
       LET read == [site EXCEPT ![url].cards =
                      IF i <= Len(@) THEN @ ELSE Append(@, art)]
       IN IF IsSome(CardError(art))
          THEN /\ site' = read
               /\ err' = CardError(art)
               /\ pc' = "Raised"
               /\ partial' = partial
          ELSE \/ /\ site' = read
                  /\ partial' = ExtractCard(url, art)
                  /\ pc' = "FetchingDetail"
                  /\ err' = err
               \/ /\ HasCardAt(read[url], i + 1)
                  /\ \E more \in CardsAt(read[url], i + 1) :
                       /\ IsSome(CardError(more))
                       /\ site' = [read EXCEPT ![url].cards =
                                     IF i + 1 <= Len(@) THEN @
                                     ELSE Append(@, more)]
                       /\ err' = CardError(more)
                       /\ pc' = "Raised"
                       /\ partial' = partial
  /\ UNCHANGED <<first, probe, cap, start_url, url, rows, i, df, exitErr,
                 printed, saved, fetchLog>>

\* Lines 86-95: the loop takes the next card and reads its list-page fields.
ExtractItem ==
  /\ pc = "ExtractingItems"
  /\ HasCardAt(site[url], i)
  /\ \E art \in CardsAt(site[url], i) :
       /\ site' = [site EXCEPT ![url].cards =
                     IF i <= Len(@) THEN @ ELSE Append(@, art)]
       /\ IF IsSome(CardError(art))
          THEN /\ err' = CardError(art)
               /\ pc' = "Raised"
               /\ partial' = partial
          ELSE /\ partial' = ExtractCard(url, art)
               /\ pc' = "FetchingDetail"
               /\ err' = err
  /\ UNCHANGED <<first, probe, cap, start_url, url, rows, i, df, exitErr, printed, saved, fetchLog>>

\* A walker that swallows a failed detail fetch and goes on with the next
\* card.
FetchDetail_skip ==
  /\ pc = "FetchingDetail"
  /\ Len(fetchLog) < cap
  /\ fetchLog' = Append(fetchLog, [kind |-> "detail", url |-> partial.DetailURL])
  /\ \E r \in get_soup(partial.DetailURL) :
       /\ site' = Put(partial.DetailURL, r.page)
       /\ IF IsSome(r.raised)
          THEN pc' = "ExtractingItems" /\ i' = i + 1
          ELSE pc' = "Enriching" /\ i' = i
  /\ UNCHANGED <<first, probe, cap, start_url, url, rows, partial, df, err, exitErr, printed, saved>>

\* Line 98: d = get_soup(detail_url).
FetchDetail ==
  /\ pc = "FetchingDetail"
  /\ Len(fetchLog) < cap
  /\ fetchLog' = Append(fetchLog, [kind |-> "detail", url |-> partial.DetailURL])
  /\ \E r \in get_soup(partial.DetailURL) :
       /\ site' = Put(partial.DetailURL, r.page)
       /\ IF IsSome(r.raised)
          THEN err' = r.raised /\ pc' = "Raised"
          ELSE err' = err /\ pc' = "Enriching"
  /\ UNCHANGED <<first, probe, cap, start_url, url, rows, i, partial, df, exitErr, printed, saved>>

\* A walker that reads the UPC cell unguarded: a detail page without the
\* cell raises AttributeError.
Enrich_strict ==
  /\ pc = "Enriching"
  /\ \E d \in DetailFacetsOf(site[partial.DetailURL]) :
       /\ site' = [site EXCEPT ![partial.DetailURL].detail = Some(d)]
       /\ IF IsSome(d.upc)
          THEN /\ rows' = AppendRow(rows, MakeRow(partial, d))
               /\ i' = i + 1
               /\ pc' = "ExtractingItems"
               /\ err' = err
          ELSE /\ rows' = rows
               /\ i' = i
               /\ pc' = "Raised"
               /\ err' = Some([kind |-> "AttributeError", url |-> None])
  /\ UNCHANGED <<first, probe, cap, start_url, url, partial, df, exitErr, printed, saved, fetchLog>>

\* Lines 100-116: read upc and category from d, append the row.
Enrich ==
  /\ pc = "Enriching"
  /\ \E d \in DetailFacetsOf(site[partial.DetailURL]) :
       /\ site' = [site EXCEPT ![partial.DetailURL].detail = Some(d)]
       /\ rows' = AppendRow(rows, MakeRow(partial, d))
  /\ i' = i + 1
  /\ pc' = "ExtractingItems"
  /\ UNCHANGED <<first, probe, cap, start_url, url, partial, df, err, exitErr, printed, saved,
                 fetchLog>>

\* A walker that does not stop at a page without a next link: it goes
\* round the loop again with the URL it has.
Paginate_nobreak ==
  /\ pc = "ExtractingItems"
  /\ EndsAt(site[url], i)
  /\ \E next_a \in NextLinksOf(site[url]) :
       /\ site' = [site EXCEPT ![url].closed = TRUE, ![url].next = Some(next_a)]
       /\ url' = IF IsSome(next_a) THEN NextUrl(url, next_a) ELSE url
  /\ pc' = "FetchingList"
  /\ UNCHANGED <<first, probe, cap, start_url, rows, i, partial, df, err, exitErr, printed, saved,
                 fetchLog>>

\* A walker that returns after the first list page it has gone through,
\* whether or not the page has a next link.
Paginate_stopEarly ==
  /\ pc = "ExtractingItems"
  /\ EndsAt(site[url], i)
  /\ \E next_a \in NextLinksOf(site[url]) :
       site' = [site EXCEPT ![url].closed = TRUE, ![url].next = Some(next_a)]
  /\ df' = Some(rows)
  /\ pc' = "Done"
  /\ UNCHANGED <<first, probe, cap, start_url, url, rows, i, partial, err, exitErr, printed, saved,
                 fetchLog>>

\* A walker that keeps the list pages it has fetched in mind and returns
\* when the next link leads to one of them.
Paginate_visited ==
  /\ pc = "ExtractingItems"
  /\ EndsAt(site[url], i)
  /\ \E next_a \in NextLinksOf(site[url]) :
       /\ site' = [site EXCEPT ![url].closed = TRUE, ![url].next = Some(next_a)]
       /\ IF \/ ~IsSome(next_a)
             \/ \E m \in 1..Len(fetchLog) :
                  fetchLog[m] = [kind |-> "list", url |-> NextUrl(url, next_a)]
          THEN /\ df' = Some(rows)
               /\ pc' = "Done"
               /\ url' = url
          ELSE /\ url' = NextUrl(url, next_a)
               /\ pc' = "FetchingList"
               /\ df' = df
  /\ UNCHANGED <<first, probe, cap, start_url, rows, i, partial, err, exitErr,
                 printed, saved, fetchLog>>

\* A walker that takes a next element without a target for no next element.
Paginate_emptystop ==
  /\ pc = "ExtractingItems"
  /\ EndsAt(site[url], i)
  /\ \E next_a \in NextLinksOf(site[url]) :
       /\ site' = [site EXCEPT ![url].closed = TRUE, ![url].next = Some(next_a)]
       /\ IF \/ ~IsSome(next_a)
             \/ ~IsSome(Val(next_a))
             \/ Val(Val(next_a)) = EmptyUrl
          THEN /\ df' = Some(rows)
               /\ pc' = "Done"
               /\ url' = url
          ELSE /\ url' = NextUrl(url, next_a)
               /\ pc' = "FetchingList"
               /\ df' = df
  /\ UNCHANGED <<first, probe, cap, start_url, rows, i, partial, err, exitErr,
                 printed, saved, fetchLog>>

\* A walker that may look for the next link before it has gone through all
\* the cards of the page.
Paginate_early ==
  /\ pc = "ExtractingItems"
  /\ \E next_a \in NextLinksOf(site[url]) :
       /\ site' = [site EXCEPT ![url].next = Some(next_a)]
       /\ IF ~IsSome(next_a)
          THEN /\ df' = Some(rows)
               /\ pc' = "Done"
               /\ url' = url
          ELSE /\ url' = NextUrl(url, next_a)
               /\ pc' = "FetchingList"
               /\ df' = df
  /\ UNCHANGED <<first, probe, cap, start_url, rows, i, partial, err, exitErr,
                 printed, saved, fetchLog>>

\* Lines 118-124: after the last card, follow the next link or return.
Paginate ==
  /\ pc = "ExtractingItems"
  /\ EndsAt(site[url], i)
  /\ \E next_a \in NextLinksOf(site[url]) :
       /\ site' = [site EXCEPT ![url].closed = TRUE, ![url].next = Some(next_a)]
       /\ IF ~IsSome(next_a)
          THEN /\ df' = Some(rows)
               /\ pc' = "Done"
               /\ url' = url
          ELSE /\ url' = NextUrl(url, next_a)
               /\ pc' = "FetchingList"
               /\ df' = df
  /\ UNCHANGED <<first, probe, cap, start_url, rows, i, partial, err, exitErr, printed, saved,
                 fetchLog>>

\* Lines 153-160: main's try/except around scrape_books(BASE): a
\* requests exception is reported and re-raised, any other passes through.
MainExcept ==
  /\ pc = "Raised"
  /\ start_url = BASE
  /\ printed' =
       IF Val(err).kind = "HTTPError" THEN Append(printed, "HTTP error")
       ELSE IF Val(err).kind = "ConnectionError"
         THEN Append(printed, "Network error")
       ELSE printed
  /\ exitErr' = err
  /\ pc' = "Exited"
  /\ UNCHANGED <<first, probe, cap, start_url, url, rows, i, partial, df, err, saved, site,
                 fetchLog>>

\* Line 162: save_outputs(df).
MainSave ==
  /\ pc = "Done"
  /\ start_url = BASE
  /\ saved' = df
  /\ pc' = "Saved"
  /\ UNCHANGED <<first, probe, cap, start_url, url, rows, i, partial, df, err, exitErr, printed,
                 site, fetchLog>>

Next ==
  \/ FetchList
  \/ ExtractItem
  \/ FetchDetail
  \/ Enrich
  \/ Paginate
  \/ MainExcept
  \/ MainSave

Spec == Init /\ [][Next]_vars

\* ------------------------------------------------------------------ history

Last(q) == q[Len(q)]

\* The list pages fetched, in the order of their fetches.
ListVisits == SelectSeq(fetchLog, LAMBDA f : f.kind = "list")
DetailFetches == SelectSeq(fetchLog, LAMBDA f : f.kind = "detail")

\* The number of cards of a list page whose cards were all read, and its
\* next element.
PageN(u) == Len(site[u].cards)
PageNext(u) == Val(site[u].next)

Finished == pc \in {"Done", "Saved"}
Aborted == pc \in {"Raised", "Exited"}

\* How many cards of the v-th visited list page the loop has gone past.
CardsDone(lv, v) ==
  LET u == lv[v].url
  IN IF site[u].status /= "ok" THEN 0
     ELSE IF v < Len(lv) \/ pc = "FetchingList" THEN PageN(u)
     ELSE i - 1

\* The cards the loop has gone past, as [page, k], in discovery order: by
\* visit, then by position on the page.
RECURSIVE OriginsFrom(_, _)
OriginsFrom(lv, v) ==
  IF v > Len(lv) THEN <<>>
  ELSE [k \in 1..CardsDone(lv, v) |-> [page |-> lv[v].url, k |-> k]]
       \o OriginsFrom(lv, v + 1)

Origins == OriginsFrom(ListVisits, 1)

OriginCard(o) == site[o.page].cards[o.k]

\* The link target of a card as the page gives it ("" when it gives none).
CardHref(art) == IF IsSome(art.href) THEN Val(art.href) ELSE EmptyUrl

\* The row a card stands for: its list-page fields and the fields of the
\* detail page its link leads to from the page it is on.
RowOf(o) ==
  LET art == OriginCard(o)
  IN MakeRow(ExtractCard(o.page, art),
             Val(site[urljoin(o.page, CardHref(art))].detail))

\* ------------------------------------------------------------------ C1

\* C1: a list page without a next link ends the walk: from the state where
\* all its cards are done the only step is the return (Done, the frame made
\* of rows) and that step fetches nothing; a finished walk has made, after
\* the fetch of that last list page, exactly one detail fetch per card of
\* it, and fetches nothing more.
C1_NoNextEndsWalk ==
  /\ [](Finished =>
          /\ site[url].closed
          /\ site[url].next = Some(None)
          /\ Last(ListVisits).url = url
          /\ \E m \in 1..Len(fetchLog) :
               /\ fetchLog[m] = [kind |-> "list", url |-> url]
               /\ Len(fetchLog) - m = PageN(url)
               /\ \A k \in 1..PageN(url) :
                    fetchLog[m + k] =
                      [kind |-> "detail",
                       url |-> urljoin(url, CardHref(site[url].cards[k]))])
  /\ [][(/\ pc = "ExtractingItems"
         /\ i > Len(site'[url].cards)
         /\ site'[url].closed
         /\ site'[url].next = Some(None))
        => (pc' = "Done" /\ df' = Some(rows) /\ fetchLog' = fetchLog)]_vars
  /\ [][Finished => (Finished' /\ fetchLog' = fetchLog)]_vars

\* A walk that finished on its second list page, which has a card.
C1_Witness ==
  /\ pc = "Done"
  /\ Len(ListVisits) = 2
  /\ PageN(url) >= 1

\* ------------------------------------------------------------------ C2

\* C2: at every point of the walk rows holds exactly the rows of the cards
\* the loop has gone past, in discovery order: the cards of an earlier
\* visited list page before those of a later one, the cards of one page in
\* their document order.
C2_DiscoveryOrder ==
  LET os == Origins
  IN rows = [j \in 1..Len(os) |-> RowOf(os[j])]

\* Rows of two list pages, and two different rows of one page.
C2_Witness ==
  /\ Len(rows) = 2
  /\ rows[1] /= rows[2]
  /\ Origins[1].page /= Origins[2].page

\* ------------------------------------------------------------------ C3

FetchErrorKinds == {"HTTPError", "ConnectionError"}

\* C3: a fetch that fails, of a list page or of a detail page, is the last
\* fetch of the walk and ends it: the exception is in flight or has left
\* main unchanged, scrape_books has returned no frame and save_outputs has
\* written none, whatever rows held.
C3_FetchFailureFatal ==
  \A m \in 1..Len(fetchLog) :
    site[fetchLog[m].url].status /= "ok" =>
      /\ m = Len(fetchLog)
      /\ Aborted
      /\ IsSome(err)
      /\ Val(err).kind \in FetchErrorKinds
      /\ df = None
      /\ saved = None
      /\ pc = "Exited" => exitErr = err

\* A detail fetch failed after a row had been appended, and the exception
\* has left main.
C3_Witness ==
  /\ pc = "Exited"
  /\ Val(err).kind \in FetchErrorKinds
  /\ Last(fetchLog).kind = "detail"
  /\ Len(rows) >= 1

\* ------------------------------------------------------------------ C4

\* The URL the next element of a list page leads to from that page.
NextOf(u) ==
  LET next_a == PageNext(u)
  IN urljoin(u, IF IsSome(Val(next_a)) THEN Val(Val(next_a)) ELSE EmptyUrl)

\* Every list page of the chain of next links from u has been read with all
\* its cards, and the detail page of each card too.
RECURSIVE WalkedFrom(_, _)
WalkedFrom(u, fuel) ==
  /\ fuel > 0
  /\ Known(u)
  /\ site[u].status = "ok"
  /\ site[u].closed
  /\ IsSome(site[u].next)
  /\ \A k \in 1..PageN(u) :
       LET du == urljoin(u, CardHref(site[u].cards[k]))
       IN Known(du) /\ site[du].status = "ok" /\ IsSome(site[du].detail)
  /\ IsSome(PageNext(u)) => WalkedFrom(NextOf(u), fuel - 1)

\* All cards of the chain of next links from u, page by page.
RECURSIVE ChainOrigins(_, _)
ChainOrigins(u, fuel) ==
  [k \in 1..PageN(u) |-> [page |-> u, k |-> k]]
  \o (IF IsSome(PageNext(u)) /\ fuel > 1
      THEN ChainOrigins(NextOf(u), fuel - 1) ELSE <<>>)

RowFields ==
  {"Title", "Price", "Rating", "Availability", "DetailURL", "UPC", "Category"}

\* C4: the frame of a walk that returned has one row for each card of each
\* list page on the chain of next links from the start URL, and no other
\* row; each row has the card's list-page fields and the UPC and Category
\* of the card's detail page; save_outputs gets that frame.
C4_CompleteResult ==
  Finished =>
    /\ WalkedFrom(start_url, MaxFetches)
    /\ LET all == ChainOrigins(start_url, MaxFetches)
       IN df = Some([j \in 1..Len(all) |-> RowOf(all[j])])
    /\ \A j \in 1..Len(Val(df)) : DOMAIN Val(df)[j] = RowFields
    /\ pc = "Saved" => saved = df

\* A walk over two list pages with a card each that returned and was saved.
C4_Witness ==
  /\ pc = "Saved"
  /\ Len(ListVisits) = 2
  /\ Len(Val(saved)) = 2
  /\ PageN(start_url) = 1

\* ------------------------------------------------------------------ C5

\* The list page and the link of the example, what the claim says they
\* resolve to and what urljoin makes of them.
ExamplePage == Url("http", "example.com", <<"", "catalogue", "page-2.html">>)
ExampleLink == Rel(<<"..", "a-light-in-the-attic_1000", "index.html">>)
ExampleClaimed ==
  Url("http", "example.com",
      <<"", "catalogue", "a-light-in-the-attic_1000", "index.html">>)
ExampleResolved ==
  Url("http", "example.com", <<"", "a-light-in-the-attic_1000", "index.html">>)

\* Each row's DetailURL is its card's link resolved against the page the
\* card is on, and each list page after the first is the next link of the
\* page before it resolved against that page.
ResolvedAgainstPage ==
  LET os == Origins
      lv == ListVisits
  IN /\ Len(rows) = Len(os)
     /\ \A j \in 1..Len(rows) :
          rows[j].DetailURL = urljoin(os[j].page, CardHref(OriginCard(os[j])))
     /\ \A v \in 1..Len(lv) :
          lv[v].url = IF v = 1 THEN start_url ELSE NextOf(lv[v - 1].url)
     /\ (pc = "FetchingList" /\ lv /= <<>>) => url = NextOf(Last(lv).url)

\* The DetailURL of the rows of the example: link ExampleLink found on page
\* ExamplePage.
ExampleRowsAre(target) ==
  LET os == Origins
  IN \A j \in 1..Len(rows) :
       (/\ j <= Len(os)
        /\ os[j].page = ExamplePage
        /\ CardHref(OriginCard(os[j])) = ExampleLink)
       => rows[j].DetailURL = target

\* C5 as stated: links are resolved against the page they are found on, and
\* the example gives http://example.com/catalogue/a-light-in-the-attic_1000/index.html.
C5_Original == ResolvedAgainstPage /\ ExampleRowsAre(ExampleClaimed)

\* C5, amended: links are resolved against the page they are found on, never
\* against the start URL or site root; the example, base
\* http://example.com/catalogue/page-2.html and link
\* ../a-light-in-the-attic_1000/index.html, gives
\* http://example.com/a-light-in-the-attic_1000/index.html (".." leaves the
\* catalogue directory).
C5_ResolvedAgainstCurrentPage ==
  ResolvedAgainstPage /\ ExampleRowsAre(ExampleResolved)

\* A row of the example: the card with the ../ link on page-2.html, reached
\* from another start URL by a next link.
C5_Witness ==
  /\ start_url /= ExamplePage
  /\ \E j \in 1..Len(rows) :
       /\ Origins[j].page = ExamplePage
       /\ CardHref(OriginCard(Origins[j])) = ExampleLink

\* ------------------------------------------------------------------ C6

\* A card without its anchor, its price node, its rating node or its
\* availability node.
Malformed(art) ==
  \/ ~art.anchor
  \/ ~IsSome(art.price)
  \/ ~IsSome(art.rating)
  \/ ~IsSome(art.avail)

\* What the unguarded accesses of lines 88-94 raise on a missing element.
MalformedItemError == {"AttributeError", "TypeError"}

\* The walk is aborted on card k of page u: the card is the one the loop
\* stands on and the last one read, it has no row, its detail page was not
\* fetched, no later card or page was read, no frame is returned or saved.
AbortedOn(u, k) ==
  /\ Aborted
  /\ IsSome(err)
  /\ u = url
  /\ Last(ListVisits).url = url
  /\ k = i
  /\ k = Len(site[u].cards)
  /\ Len(rows) = Len(Origins)
  /\ Len(DetailFetches) = Len(rows)
  /\ df = None
  /\ saved = None

\* C6 as stated: once the loop has read a malformed card the walk is aborted
\* on that card, with MalformedItemError.
C6_Original ==
  \A u \in DOMAIN site :
    \A k \in 1..Len(site[u].cards) :
      Malformed(site[u].cards[k]) =>
        AbortedOn(u, k) /\ Val(err).kind \in MalformedItemError

\* The price text of the card is read (line 92) and float() rejects it.
PriceRejected(art) ==
  art.anchor /\ IsSome(art.price) /\ ~parse_price(strip(Val(art.price))).ok

\* C6, amended: once the loop has read a malformed card the walk is aborted
\* on that card; it is never skipped.  The error is MalformedItemError,
\* unless the card's price text is unparseable: the price is read before the
\* rating and availability nodes, so such a card aborts the walk with
\* ParseError (ValueError) and its missing node is never looked for.
C6_MalformedCardAborts ==
  \A u \in DOMAIN site :
    \A k \in 1..Len(site[u].cards) :
      Malformed(site[u].cards[k]) =>
        /\ AbortedOn(u, k)
        /\ IF PriceRejected(site[u].cards[k])
           THEN Val(err).kind = "ValueError"
           ELSE Val(err).kind \in MalformedItemError

\* The second card of a page has no price node; the first one has its row.
C6_Witness ==
  /\ Aborted
  /\ i = 2
  /\ Len(site[url].cards) = 2
  /\ ~IsSome(site[url].cards[2].price)
  /\ Len(rows) = 1

\* ------------------------------------------------------------------ C7

\* C7: a detail page without the first cell of the product table does not
\* abort the walk: the step that reads it appends the item's row with UPC =
\* "" and goes on to the next card with no exception raised, and every row
\* of such a detail page has UPC = "".
C7_MissingTableNonFatal ==
  /\ [](\A j \in 1..Len(rows) :
          (/\ Known(rows[j].DetailURL)
           /\ IsSome(site[rows[j].DetailURL].detail)
           /\ ~IsSome(Val(site[rows[j].DetailURL].detail).upc))
          => rows[j].UPC = <<>>)
  /\ [][(/\ pc = "Enriching"
         /\ IsSome(site'[partial.DetailURL].detail)
         /\ ~IsSome(Val(site'[partial.DetailURL].detail).upc))
        => (/\ pc' = "ExtractingItems"
            /\ i' = i + 1
            /\ err' = None
            /\ Len(rows') = Len(rows) + 1
            /\ SubSeq(rows', 1, Len(rows)) = rows
            /\ Last(rows').UPC = <<>>
            /\ Last(rows').DetailURL = partial.DetailURL)]_vars

\* A walk that returned two rows, the first from a detail page without the
\* table.
C7_Witness ==
  /\ Finished
  /\ Len(rows) = 2
  /\ ~IsSome(Val(site[rows[1].DetailURL].detail).upc)
  /\ rows[1].UPC = <<>>

\* ------------------------------------------------------------------ C8

\* The title attribute of a card as the page gives it ("" when missing).
RawTitle(art) == IF IsSome(art.title) THEN Val(art.title) ELSE <<>>

Blank(t) == \A k \in 1..Len(t) : t[k] \in Whitespace

\* t is raw without its leading and trailing whitespace.
IsTrimOf(t, raw) ==
  /\ t = <<>> \/ (t[1] \notin Whitespace /\ t[Len(t)] \notin Whitespace)
  /\ \E a \in 0..Len(raw) :
       /\ a + Len(t) <= Len(raw)
       /\ SubSeq(raw, a + 1, a + Len(t)) = t
       /\ Blank(SubSeq(raw, 1, a))
       /\ Blank(SubSeq(raw, a + Len(t) + 1, Len(raw)))

\* C8 as stated: no row has an empty Title.
C8_Original == \A j \in 1..Len(rows) : rows[j].Title /= <<>>

\* C8, amended: the Title of every row is the card's title attribute
\* without leading and trailing whitespace; it is empty exactly when the
\* attribute is missing or blank, and such a card still gets its row.
C8_TitleTrimmed ==
  LET os == Origins
  IN /\ Len(rows) = Len(os)
     /\ \A j \in 1..Len(rows) :
          LET raw == RawTitle(OriginCard(os[j]))
          IN /\ IsTrimOf(rows[j].Title, raw)
             /\ rows[j].Title = <<>> <=> Blank(raw)

\* A row of a card with a blank title.
C8_Witness ==
  \E j \in 1..Len(rows) :
    /\ OriginCard(Origins[j]).title = Some(<<" ">>)
    /\ rows[j].Title = <<>>

\* ------------------------------------------------------------------ C9

\* C9: with an absolute start URL every DetailURL, of a row or about to be
\* fetched, is absolute, whatever the card's link: relative, or missing.
C9_DetailUrlAbsolute ==
  IsAbsolute(start_url) =>
    /\ \A j \in 1..Len(rows) : IsAbsolute(rows[j].DetailURL)
    /\ \A m \in 1..Len(fetchLog) : IsAbsolute(fetchLog[m].url)
    /\ pc \in {"FetchingDetail", "Enriching"} => IsAbsolute(partial.DetailURL)

\* A row of a card without href: its DetailURL is the list page's URL.
C9_Witness ==
  \E j \in 1..Len(rows) :
    /\ ~IsSome(OriginCard(Origins[j]).href)
    /\ rows[j].DetailURL = Origins[j].page

\* ------------------------------------------------------------------ C10

\* The URL the walk was working on when the exception in flight was
\* raised: the URL of the failed fetch, or the list page of the failed card.
ProcessedUrl ==
  IF Val(err).kind \in FetchErrorKinds THEN Last(fetchLog).url ELSE url

\* C10 as stated: the exception that aborts the walk leaves main as it was
\* raised and carries the URL being processed.
C10_Original ==
  IsSome(err) =>
    /\ Val(err).url = Some(ProcessedUrl)
    /\ pc = "Exited" => exitErr = err

\* C10, amended: every exception that aborts the walk reaches the caller
\* as it was raised, neither caught for good nor wrapped; an exception of a
\* failed fetch carries the URL of that fetch; an exception of a malformed
\* card or of an unparseable price carries no URL.
C10_SurfacedUnchanged ==
  /\ [](IsSome(err) =>
          /\ Aborted
          /\ Val(err).kind \in FetchErrorKinds
               => Val(err).url = Some(Last(fetchLog).url)
          /\ Val(err).kind \notin FetchErrorKinds
               => (/\ Val(err).url = None
                   /\ Val(err).kind \in MalformedItemError \cup {"ValueError"})
          /\ pc = "Exited" => exitErr = err)
  /\ [](Aborted => IsSome(err))
  /\ [][IsSome(err) => err' = err]_vars

\* An HTTP error has left main with the URL of the failed fetch.
C10_Witness ==
  /\ pc = "Exited"
  /\ Val(exitErr).kind = "HTTPError"
  /\ Val(exitErr).url = Some(Last(fetchLog).url)

\* ------------------------------------------------------------------ C11

\* The call of scrape_books has come to its end, or to the cap on fetches.
Stopped ==
  \/ pc \in {"Done", "Raised"}
  \/ pc \in {"FetchingList", "FetchingDetail"} /\ Len(fetchLog) = cap

\* A second call that goes on with the rows of the first one.
Rerun_keeprows ==
  /\ Stopped
  /\ start_url /= BASE
  /\ first = None
  /\ first' = Some([rows |-> rows, df |-> df, err |-> err,
                    fetchLog |-> fetchLog, pc |-> pc, site |-> site])
  /\ url' = start_url
  /\ rows' = rows
  /\ pc' = "FetchingList"
  /\ i' = 1
  /\ partial' = NoPartial
  /\ df' = None
  /\ err' = None
  /\ fetchLog' = <<>>
  /\ UNCHANGED <<probe, cap, start_url, exitErr, printed, saved, site>>

\* Lines 71-80, a second time: a caller other than main calls
\* scrape_books(start_url) again once the first call has stopped; the call
\* starts from url = start_url and rows = [] and meets the same site.  What
\* the first call ended with is kept in first.
Rerun ==
  /\ Stopped
  /\ start_url /= BASE
  /\ first = None
  /\ first' = Some([rows |-> rows, df |-> df, err |-> err,
                    fetchLog |-> fetchLog, pc |-> pc, site |-> site])
  /\ url' = start_url
  /\ rows' = <<>>
  /\ pc' = "FetchingList"
  /\ i' = 1
  /\ partial' = NoPartial
  /\ df' = None
  /\ err' = None
  /\ fetchLog' = <<>>
  /\ UNCHANGED <<probe, cap, start_url, exitErr, printed, saved, site>>

NextTwice == Next \/ Rerun

\* scrape_books called once by main or twice by another caller.
SpecTwice == Init /\ [][NextTwice]_vars

IsPrefix(s, t) == Len(s) <= Len(t) /\ SubSeq(t, 1, Len(s)) = s

\* C11: a second call of scrape_books from the same start URL on the same
\* site goes the way the first one went: it reads nothing of the site the
\* first call had not read, at every moment its fetches and its rows are the
\* first fetches and rows of the first call, and when it stops it has made
\* the same fetches in the same order and has the same rows with the same
\* values in the same order, the same frame or the same exception.
C11_Deterministic ==
  IsSome(first) =>
    LET f == Val(first)
    IN /\ site = f.site
       /\ IsPrefix(fetchLog, f.fetchLog)
       /\ IsPrefix(rows, f.rows)
       /\ Stopped =>
            /\ fetchLog = f.fetchLog
            /\ rows = f.rows
            /\ df = f.df
            /\ err = f.err
            /\ pc = f.pc

\* A second call has returned two rows of two list pages.
C11_Witness ==
  /\ IsSome(first)
  /\ pc = "Done"
  /\ Len(rows) = 2
  /\ Len(ListVisits) = 2
  /\ rows[1] /= rows[2]

\* ------------------------------------------------------------------ C12

\* Breadcrumb trails of four, three, two, one and no label.
CrumbTrails ==
  {NormalDetail.crumbs, <<"Home", "Books", "Poetry">>, <<"Home", "Books">>,
   <<"Home">>, <<>>}

CrumbFacets == [upc : {NormalDetail.upc, None}, crumbs : CrumbTrails]

\* The second card of the breadcrumb fixture: its link leads to another host.
CdnCard ==
  [NormalCard EXCEPT
     !.href = Some(Url("https", "cdn.example.org", <<"", "b", "index.html">>))]

\* A detail page that has been read.
ReadDetail(status, d) ==
  [status |-> status, cards |-> <<>>, closed |-> FALSE, next |-> None,
   detail |-> IF status = "ok" THEN Some(d) ELSE None]

\* The breadcrumb fixture: one list page at s with two cards and no next
\* link; the detail page of the first card has any of the trails, the detail
\* page of the second one too unless its fetch fails.
CrumbSites(s) ==
  {(s :> [status |-> "ok", cards |-> <<NormalCard, CdnCard>>, closed |-> TRUE,
          next |-> Some(None), detail |-> None])
   @@ (CardDetailUrl(s, NormalCard) :> ReadDetail("ok", d1))
   @@ (CardDetailUrl(s, CdnCard) :> ReadDetail(st, d2)) :
     d1 \in CrumbFacets, d2 \in CrumbFacets, st \in Statuses}

\* scrape_books is called on a site of the breadcrumb fixture.
InitCrumbs ==
  /\ start_url \in StartURLs
  /\ url = start_url
  /\ pc = "FetchingList"
  /\ rows = <<>>
  /\ i = 1
  /\ partial = NoPartial
  /\ df = None
  /\ err = None
  /\ exitErr = None
  /\ printed = <<>>
  /\ saved = None
  /\ site \in CrumbSites(start_url)
  /\ fetchLog = <<>>
  /\ first = None
  /\ probe = NoProbe
  /\ cap = MaxFetches

SpecCrumbs == InitCrumbs /\ [][Next]_vars

\* The breadcrumb trail of the detail page a row was made from.
TrailOf(row) == Val(site[row.DetailURL].detail).crumbs

\* C12: the Category of a row is the third label of its detail page's
\* breadcrumb trail when the trail has at least three labels, and "Books"
\* when it has none, one or two.  A short trail aborts nothing: the walk
\* is aborted only by a failed fetch, each card whose detail page was
\* fetched has its row, and a walk that returned has a row for both cards.
C12_CategoryFromTrail ==
  /\ \A j \in 1..Len(rows) :
       /\ Len(TrailOf(rows[j])) >= 3 => rows[j].Category = TrailOf(rows[j])[3]
       /\ Len(TrailOf(rows[j])) \in {0, 1, 2} => rows[j].Category = "Books"
  /\ Aborted =>
       /\ Val(err).kind \in FetchErrorKinds
       /\ site[Last(fetchLog).url].status /= "ok"
  /\ pc \in {"ExtractingItems", "Done", "Saved"} =>
       Len(rows) = Len(DetailFetches)
  /\ Finished => Len(rows) = 2

\* A walk that returned a row made from an empty trail and a row made from
\* a trail of three labels.
C12_Witness ==
  /\ Finished
  /\ Len(rows) = 2
  /\ TrailOf(rows[1]) = <<>>
  /\ rows[1].Category = "Books"
  /\ Len(TrailOf(rows[2])) = 3
  /\ rows[2].Category = "Poetry"

\* ------------------------------------------------------------------ parsers

\* The texts of the direct calls: all texts up to MaxText characters over a
\* letter, the minus sign, the decimal point and three digits.
TextChars == {"a", "-", ".", "0", "2", "5"}
Texts == UNION {[1..n -> TextChars] : n \in 0..MaxText}

\* "P53.74" (P for the currency sign) and "P--".
PriceExamples == {<<"P", "5", "3", ".", "7", "4">>, <<"P", "-", "-">>}

\* "In stock (22 available)" and "In stock".
AvailabilityExamples ==
  {<<"I", "n", " ", "s", "t", "o", "c", "k", " ", "(", "2", "2", " ", "a",
     "v", "a", "i", "l", "a", "b", "l", "e", ")">>,
   <<"I", "n", " ", "s", "t", "o", "c", "k">>}

\* The class lists of the direct calls: all lists up to MaxLabels classes.
Labels == {"star-rating", "One", "Two", "Three", "Four", "Five", "three"}
ClassLists == UNION {[1..n -> Labels] : n \in 0..MaxLabels}

Probes ==
  {[fn |-> "parse_price", arg |-> t, out |-> None] :
     t \in Texts \cup PriceExamples}
  \cup {[fn |-> "parse_availability", arg |-> t, out |-> None] :
          t \in Texts \cup AvailabilityExamples}
  \cup {[fn |-> "parse_rating", arg |-> c, out |-> None] : c \in ClassLists}

\* The site for a price text: one list page at s with one card, whose
\* p.price_color node has that text, and no next link; the card's detail
\* page is the normal one.
PriceSite(s, text) ==
  LET art == [NormalCard EXCEPT !.price = Some(text)]
  IN (s :> [status |-> "ok", cards |-> <<art>>, closed |-> TRUE,
            next |-> Some(None), detail |-> None])
     @@ (CardDetailUrl(s, art) :> ReadDetail("ok", NormalDetail))

\* A caller is about to call one of the parsers; for parse_price, main is
\* then run on a site whose card has the same price text.
InitParsers ==
  /\ probe \in Probes
  /\ start_url = BASE
  /\ url = start_url
  /\ pc = "Calling"
  /\ rows = <<>>
  /\ i = 1
  /\ partial = NoPartial
  /\ df = None
  /\ err = None
  /\ exitErr = None
  /\ printed = <<>>
  /\ saved = None
  /\ site = IF probe.fn = "parse_price" THEN PriceSite(start_url, probe.arg)
            ELSE [u \in {} |-> UnreadPage("ok")]
  /\ fetchLog = <<>>
  /\ first = None
  /\ cap = MaxFetches

\* Lines 46-48 called directly, then main.
CallParsePrice ==
  /\ pc = "Calling"
  /\ probe.fn = "parse_price"
  /\ probe' = [probe EXCEPT !.out = Some(parse_price(probe.arg))]
  /\ pc' = "FetchingList"
  /\ UNCHANGED <<first, cap, start_url, url, rows, i, partial, df, err, exitErr,
                 printed, saved, site, fetchLog>>

\* Lines 51-60 called directly.
CallParseRating ==
  /\ pc = "Calling"
  /\ probe.fn = "parse_rating"
  /\ probe' = [probe EXCEPT !.out = Some(parse_rating(probe.arg))]
  /\ pc' = "Called"
  /\ UNCHANGED <<first, cap, start_url, url, rows, i, partial, df, err, exitErr,
                 printed, saved, site, fetchLog>>

\* Lines 63-66 called directly.
CallParseAvailability ==
  /\ pc = "Calling"
  /\ probe.fn = "parse_availability"
  /\ probe' = [probe EXCEPT !.out = Some(parse_availability(probe.arg))]
  /\ pc' = "Called"
  /\ UNCHANGED <<first, cap, start_url, url, rows, i, partial, df, err, exitErr,
                 printed, saved, site, fetchLog>>

NextParsers ==
  \/ CallParsePrice
  \/ CallParseRating
  \/ CallParseAvailability
  \/ Next

SpecParsers == InitParsers /\ [][NextParsers]_vars

\* ------------------------------------------------------------------ C13

RECURSIVE Pow10(_)
Pow10(n) == IF n = 0 THEN 1 ELSE 10 * Pow10(n - 1)

\* The sum, over the places k of R, of the digit of t at k times ten to the
\* number of places of S behind k.
RECURSIVE WeightSum(_, _, _)
WeightSum(t, S, R) ==
  IF R = {} THEN 0
  ELSE LET k == CHOOSE x \in R : TRUE
       IN DigitVal(t[k]) * Pow10(Cardinality({j \in S : j > k}))
          + WeightSum(t, S, R \ {k})

\* The places of the digits and of the decimal points of a text.
DigitPlaces(t) == {k \in 1..Len(t) : t[k] \in Digits}
DotPlaces(t) == {k \in 1..Len(t) : t[k] = "."}

\* The number the digits at the places S of t spell, read left to right.
NumberAt(t, S) == WeightSum(t, S, S)

\* t without the characters that are neither digit nor point is a number:
\* it has a digit and at most one point.
ValidNumber(t) == DigitPlaces(t) /= {} /\ Cardinality(DotPlaces(t)) <= 1

\* The number of digits behind the point of a valid number.
FractionDigits(t) ==
  IF DotPlaces(t) = {} THEN 0
  ELSE Cardinality({k \in DigitPlaces(t) :
                      k > (CHOOSE d \in DotPlaces(t) : TRUE)})

\* C13: parse_price(text) returns the decimal value of the digits and the
\* point of the text, all other characters left out: the number spelled by
\* all its digits, divided by ten for each digit behind the point.  The
\* value is never negative, a minus sign changes nothing.  It fails when
\* what is left is not a number: nothing left, or more than one point, or
\* no digit.  On a site whose card has that price text, a text that fails
\* aborts the walk with ValueError before any detail fetch: no row, no
\* frame, nothing saved; a text that parses gives the row that value.
C13_ParsePrice ==
  (probe.fn = "parse_price" /\ IsSome(probe.out)) =>
    LET t == probe.arg
        r == Val(probe.out)
    IN /\ r.ok <=> ValidNumber(t)
       /\ (DigitPlaces(t) = {} /\ DotPlaces(t) = {}) => ~r.ok
       /\ Cardinality(DotPlaces(t)) > 1 => ~r.ok
       /\ r.ok =>
            /\ r.value.mant >= 0
            /\ r.value.exp >= 0
            /\ r.value.mant * Pow10(FractionDigits(t))
                 = NumberAt(t, DigitPlaces(t)) * Pow10(r.value.exp)
            /\ ~Aborted
            /\ \A j \in 1..Len(rows) : rows[j].Price = r.value
            /\ Finished => Len(rows) = 1
       /\ ~r.ok =>
            /\ pc \in {"FetchingList", "ExtractingItems", "Raised", "Exited"}
            /\ Aborted => Val(err).kind = "ValueError"
            /\ pc = "ExtractingItems" => site[url].cards[i].price = Some(t)
            /\ rows = <<>>
            /\ DetailFetches = <<>>
            /\ df = None
            /\ saved = None

\* "P53.74" has given 53.74, and the walk has saved a row with that price.
C13_Witness ==
  /\ probe.fn = "parse_price"
  /\ probe.arg = <<"P", "5", "3", ".", "7", "4">>
  /\ probe.out = Some([ok |-> TRUE, value |-> [mant |-> 5374, exp |-> 2]])
  /\ pc = "Saved"
  /\ Val(saved)[1].Price = [mant |-> 5374, exp |-> 2]

\* ------------------------------------------------------------------ C14

RatingWords == <<"One", "Two", "Three", "Four", "Five">>

\* The places of a class list that hold one of the five words.
WordPlaces(c) ==
  {k \in 1..Len(c) : \E n \in 1..5 : c[k] = RatingWords[n]}

Least(S) == CHOOSE k \in S : \A j \in S : k <= j

\* C14: parse_rating(classes) returns the value, 1 to 5, of the first class
\* in list order that is one of One, Two, Three, Four, Five, and absent when
\* no class is; it returns nothing else.  ["star-rating", "Three"] gives 3,
\* ["star-rating"] gives absent, ["Two", "Five"] gives 2.
C14_ParseRating ==
  (probe.fn = "parse_rating" /\ IsSome(probe.out)) =>
    LET c == probe.arg
        r == Val(probe.out)
    IN /\ WordPlaces(c) = {} => r = None
       /\ WordPlaces(c) /= {} =>
            /\ IsSome(r)
            /\ Val(r) \in 1..5
            /\ RatingWords[Val(r)] = c[Least(WordPlaces(c))]
       /\ c = <<"star-rating", "Three">> => r = Some(3)
       /\ c = <<"star-rating">> => r = None
       /\ c = <<"Two", "Five">> => r = Some(2)

\* ["Two", "Five"] has given 2.
C14_Witness ==
  /\ probe.fn = "parse_rating"
  /\ probe.arg = <<"Two", "Five">>
  /\ probe.out = Some(Some(2))

\* ------------------------------------------------------------------ C15

\* The last place of the run of digits of t that starts at place a.
RunEnd(t, a) ==
  CHOOSE b \in a..Len(t) :
    /\ \A k \in a..b : t[k] \in Digits
    /\ b = Len(t) \/ t[b + 1] \notin Digits

\* C15: parse_availability(text) returns the number spelled by the leftmost
\* run of digits of the text, the whole run up to the first character that
\* is no digit and nothing of any later run, and absent when the text has
\* no digit; the number is never negative.  "In stock (22 available)" gives
\* 22, "In stock" gives absent.
C15_ParseAvailability ==
  (probe.fn = "parse_availability" /\ IsSome(probe.out)) =>
    LET t == probe.arg
        r == Val(probe.out)
    IN /\ DigitPlaces(t) = {} => r = None
       /\ DigitPlaces(t) /= {} =>
            LET a == Least(DigitPlaces(t))
                b == RunEnd(t, a)
            IN /\ IsSome(r)
               /\ Val(r) = NumberAt(t, a..b)
               /\ Val(r) >= 0
       /\ t \in AvailabilityExamples =>
            r = IF Len(t) = 8 THEN None ELSE Some(22)

\* A text with two runs of digits has given the first run, whole.
C15_Witness ==
  /\ probe.fn = "parse_availability"
  /\ probe.arg = <<"2", "5", "-", "0">>
  /\ probe.out = Some(Some(25))

\* ------------------------------------------------------------------ C16

\* The exception in flight comes from the detail fetch of the card the loop
\* stands on.
DetailFetchFailed ==
  /\ Aborted
  /\ Val(err).kind \in FetchErrorKinds
  /\ Last(fetchLog).kind = "detail"

\* For how many cards of the v-th visited list page the detail page has
\* been asked for.
DetailsAsked(lv, v) ==
  CardsDone(lv, v)
  + (IF v = Len(lv) /\ (pc = "Enriching" \/ DetailFetchFailed) THEN 1 ELSE 0)

\* The fetches of the visits from the v-th on, as strict sequencing has
\* them: the list page, then the detail page of each of its cards the loop
\* has come to, in document order, then the same for the next visit.
RECURSIVE SequentialLog(_, _)
SequentialLog(lv, v) ==
  IF v > Len(lv) THEN <<>>
  ELSE LET u == lv[v].url
       IN <<[kind |-> "list", url |-> u]>>
          \o [k \in 1..DetailsAsked(lv, v) |->
                [kind |-> "detail",
                 url |-> urljoin(u, CardHref(site[u].cards[k]))]]
          \o SequentialLog(lv, v + 1)

\* The number of cards of the list pages visited, each visit counted.
RECURSIVE CardsOfVisits(_, _)
CardsOfVisits(lv, v) ==
  IF v > Len(lv) THEN 0 ELSE PageN(lv[v].url) + CardsOfVisits(lv, v + 1)

\* C16: the fetches are made one after the other in walk order: the log of
\* get_soup calls is, at every moment, list page 1, the detail page of each
\* of its cards in document order, list page 2 and so on, one fetch for
\* each visit of a list page and one detail fetch for each card; every
\* detail fetch but one in flight has its row; and whenever the walk is
\* about to fetch another list page or has returned, every card of every
\* page visited has been fetched, enriched and appended.
C16_StrictlySequential ==
  LET lv == ListVisits
  IN /\ fetchLog = SequentialLog(lv, 1)
     /\ Len(rows) =
          Len(DetailFetches)
          - (IF pc = "Enriching" \/ DetailFetchFailed THEN 1 ELSE 0)
     /\ (lv /= <<>> /\ (pc = "FetchingList" \/ Finished)) =>
          /\ \A v \in 1..Len(lv) : site[lv[v].url].closed
          /\ Len(DetailFetches) = CardsOfVisits(lv, 1)
          /\ Len(rows) = CardsOfVisits(lv, 1)

\* A walk that returned after list page 1 with a card and list page 2 with
\* a card: list, detail, list, detail.
C16_Witness ==
  /\ Finished
  /\ Len(fetchLog) = 4
  /\ fetchLog[1] = [kind |-> "list", url |-> start_url]
  /\ fetchLog[2].kind = "detail"
  /\ fetchLog[3] = [kind |-> "list", url |-> NextOf(start_url)]
  /\ fetchLog[4].kind = "detail"
  /\ Len(rows) = 2

\* ------------------------------------------------------------------ chains

\* The chain fixture: three list pages, "/" and catalogue/page-2.html and
\* catalogue/page-3.html of the site of BASE.
ChainPages == 1..3
PageFile == <<"index.html", "page-2.html", "page-3.html">>

ChainUrl(n) ==
  IF n = 1 THEN BASE
  ELSE Url(BASE.scheme, BASE.netloc, <<"", "catalogue", PageFile[n]>>)

\* The href that leads from page n to page m: "/" or "../" to page 1,
\* "catalogue/page-m.html" from page 1, "page-m.html" from the others.
LinkTo(n, m) ==
  IF m = 1 THEN (IF n = 1 THEN Rel(<<"", "">>) ELSE Rel(<<"..", "">>))
  ELSE IF n = 1 THEN Rel(<<"catalogue", PageFile[m]>>)
  ELSE Rel(<<PageFile[m]>>)

\* The "li.next a" elements page n may have: none, one without href, one
\* with an empty href, one that leads to any of the pages.
ChainNexts(n) ==
  {None, Some(None), Some(Some(EmptyUrl))}
  \cup {Some(Some(LinkTo(n, m))) : m \in ChainPages}

\* The site with next elements nx and numbers of cards nc on its list
\* pages, all cards and their detail pages normal, and status st for the
\* last list page.
ChainSite(nx, nc, st) ==
  LET pages == {ChainUrl(n) : n \in ChainPages}
      details == {CardDetailUrl(ChainUrl(n), NormalCard) : n \in ChainPages}
  IN [u \in pages \cup details |->
        IF u \in details THEN ReadDetail("ok", NormalDetail)
        ELSE LET n == CHOOSE m \in ChainPages : ChainUrl(m) = u
             IN [status |-> IF n = 3 THEN st ELSE "ok",
                 cards |-> [k \in 1..nc[n] |-> NormalCard],
                 closed |-> TRUE,
                 next |-> Some(nx[n]),
                 detail |-> None]]

ChainSites ==
  {ChainSite(nx, nc, st) :
     nx \in {f \in [ChainPages -> UNION {ChainNexts(n) : n \in ChainPages}] :
               \A n \in ChainPages : f[n] \in ChainNexts(n)},
     nc \in [ChainPages -> 0..1],
     st \in Statuses}

\* main is run on a site of the chain fixture.
InitChain ==
  /\ start_url = BASE
  /\ url = start_url
  /\ pc = "FetchingList"
  /\ rows = <<>>
  /\ i = 1
  /\ partial = NoPartial
  /\ df = None
  /\ err = None
  /\ exitErr = None
  /\ printed = <<>>
  /\ saved = None
  /\ site \in ChainSites
  /\ fetchLog = <<>>
  /\ first = None
  /\ probe = NoProbe
  /\ cap = MaxChainFetches

\* The program is one thread that runs on as long as it can take a step.
SpecChain == InitChain /\ [][Next]_vars /\ WF_vars(Next)

\* The list pages the next links lead through from u, u first, up to n of
\* them; the trail ends at a page without next element or with a failed
\* fetch.
RECURSIVE Trail(_, _)
Trail(u, n) ==
  IF n = 0 THEN <<>>
  ELSE <<u>> \o (IF site[u].status = "ok" /\ IsSome(PageNext(u))
                 THEN Trail(NextOf(u), n - 1) ELSE <<>>)

\* The trail from the start URL, cut after one page more than the fixture
\* has: a trail that long passes some page twice.
StartTrail == Trail(start_url, Cardinality(ChainPages) + 1)

\* The chain of next links is finite and without cycle, and every fetch on
\* it succeeds.
ChainEnds ==
  /\ Len(StartTrail) <= Cardinality(ChainPages)
  /\ site[Last(StartTrail)].status = "ok"

\* The chain of next links leads back to a list page it has passed.
ChainCycles == Len(StartTrail) > Cardinality(ChainPages)

\* The walk has been followed up to the cap on fetches.
AtCap ==
  pc \in {"FetchingList", "FetchingDetail"} /\ Len(fetchLog) = cap

\* The place in rows of the row of card k of the v-th visit.
RECURSIVE RowsBefore(_, _)
RowsBefore(lv, v) ==
  IF v <= 1 THEN 0 ELSE RowsBefore(lv, v - 1) + CardsDone(lv, v - 1)

\* The rows the w-th visit has appended so far are those the v-th visit
\* appended for the same cards, once more.
AppendedAgain(lv, v, w) ==
  \A k \in 1..CardsDone(lv, w) :
    /\ RowsBefore(lv, w) + k <= Len(rows)
    /\ rows[RowsBefore(lv, w) + k] = rows[RowsBefore(lv, v) + k]

\* ------------------------------------------------------------------ C17

\* C17: when the chain of next links from the start URL is finite, has no
\* cycle and every fetch on it succeeds, the walk comes to Done, and it has
\* then fetched the list pages of the chain in chain order, each once.
\* Nothing in the walker looks for a cycle: when the chain leads back to a
\* list page it has passed, the walk never comes to Done, nor to an error;
\* it goes on fetching for as long as it is followed, and each further
\* visit of a page appends the rows of that page again.
C17_EndsUnlessCyclic ==
  /\ [](ChainEnds => <>Finished)
  /\ [](Finished =>
          LET lv == ListVisits
          IN /\ [v \in 1..Len(lv) |-> lv[v].url] = StartTrail
             /\ \A v, w \in 1..Len(lv) : lv[v].url = lv[w].url => v = w)
  /\ [](ChainCycles => ~Finished /\ ~Aborted)
  /\ [](ChainCycles => <>AtCap)
  /\ [](LET lv == ListVisits
        IN \A v, w \in 1..Len(lv) :
             (v < w /\ lv[v].url = lv[w].url) => AppendedAgain(lv, v, w))

\* Page 2 leads back to page 1, which has a card: page 1 has been fetched
\* again and its row is in rows a second time.
C17_Witness ==
  /\ Len(ListVisits) = 3
  /\ ListVisits[2].url /= ListVisits[1].url
  /\ ListVisits[3].url = ListVisits[1].url
  /\ Len(rows) >= 2
  /\ rows[1] = rows[Len(rows)]

\* ------------------------------------------------------------------ C20

\* The next element of list page u has no target: no href, or an empty one.
EmptyTarget(u) ==
  /\ IsSome(PageNext(u))
  /\ ~IsSome(Val(PageNext(u))) \/ Val(Val(PageNext(u))) = EmptyUrl

\* The walk has come to a list page whose next element has no target.
OnEmptyTarget ==
  \E v \in 1..Len(ListVisits) :
    site[ListVisits[v].url].status = "ok" /\ EmptyTarget(ListVisits[v].url)

\* C20: a next element without target does not stop the walk: the next URL
\* is the URL of the list page itself, so every visit after one of such a
\* page is of the same page, and appends its rows again; once the walk has come
\* to such a page it never comes to Done, nor to an error, and goes on
\* fetching the page for as long as it is followed.
C20_EmptyNextLoops ==
  /\ [](LET lv == ListVisits
        IN /\ \A v, w \in 1..Len(lv) :
                (v < w /\ EmptyTarget(lv[v].url)) =>
                  /\ lv[w].url = lv[v].url
                  /\ AppendedAgain(lv, v, w)
           /\ (pc = "FetchingList" /\ lv /= <<>> /\ EmptyTarget(Last(lv).url))
                => url = Last(lv).url)
  /\ [](OnEmptyTarget => ~Finished /\ ~Aborted)
  /\ [](OnEmptyTarget => <>AtCap)

\* The start page has a card and a next element with an empty href: it has
\* been fetched three times and its row is in rows three times.
C20_Witness ==
  /\ IsSome(PageNext(start_url))
  /\ PageNext(start_url) = Some(Some(EmptyUrl))
  /\ Len(ListVisits) = 3
  /\ \A v \in 1..3 : ListVisits[v].url = start_url
  /\ Len(rows) = 3
  /\ rows[1] = rows[2]
  /\ rows[2] = rows[3]

\* ------------------------------------------------------------------ C18

\* C18: rows is only ever appended to: a step of the walk leaves rows as it
\* is or, in Enriching, puts one row with all its fields, the row of the
\* card in hand, behind the rows there are; no row is changed, moved or
\* taken out, so rows of an earlier state is a prefix of rows of any later
\* state.
C18_AppendOnly ==
  [][\/ rows' = rows
     \/ /\ pc = "Enriching"
        /\ Len(rows') = Len(rows) + 1
        /\ SubSeq(rows', 1, Len(rows)) = rows
        /\ DOMAIN Last(rows') = RowFields
        /\ Last(rows').Title = partial.Title
        /\ Last(rows').DetailURL = partial.DetailURL]_vars

\* A second visit of a list page has appended the row it had appended
\* before: both are there.
C18_Witness ==
  /\ Len(rows) = 2
  /\ rows[1] = rows[2]
  /\ Len(ListVisits) = 2
  /\ ListVisits[1].url = ListVisits[2].url

\* ------------------------------------------------------------------ C19

\* The exception in flight comes from the list-page fields of a card.
CardFailed == Aborted /\ IsSome(err) /\ Val(err).kind \notin FetchErrorKinds

\* C19: cards are read and enriched one at a time.  When the walk is
\* aborted by the k-th card of a list page (a missing element or an
\* unparseable price), that card is the last one read of the page; the
\* fetches since the fetch of the page are the detail pages of its cards 1
\* to k-1, in order; the last k-1 rows are the rows of those cards; and
\* neither the detail page of card k nor any later card has been asked for.
C19_InterleavedPerCard ==
  CardFailed =>
    LET k == Len(site[url].cards)
        n == Len(fetchLog)
    IN /\ k = i
       /\ k >= 1
       /\ IsSome(CardError(site[url].cards[k]))
       /\ n >= k
       /\ fetchLog[n - (k - 1)] = [kind |-> "list", url |-> url]
       /\ \A j \in 1..k - 1 :
            /\ ~IsSome(CardError(site[url].cards[j]))
            /\ fetchLog[n - (k - 1) + j] =
                 [kind |-> "detail",
                  url |-> urljoin(url, CardHref(site[url].cards[j]))]
            /\ Len(rows) >= k - 1
            /\ rows[Len(rows) - (k - 1) + j] =
                 MakeRow(ExtractCard(url, site[url].cards[j]),
                         Val(site[urljoin(url, CardHref(site[url].cards[j]))]
                               .detail))
       /\ ~site[url].closed

\* The second card of a page has no rating node: the detail page of the
\* first card was fetched and its row appended, and that was the last fetch.
C19_Witness ==
  /\ CardFailed
  /\ Val(err).kind = "TypeError"
  /\ Len(site[url].cards) = 2
  /\ Len(fetchLog) = 2
  /\ Last(fetchLog).kind = "detail"
  /\ Len(rows) = 1

====
